---- MODULE Spec2Model ----
(***************************************************************************)
(* Model of scripts/visualize_aftershocks.py: the CLI driver main(), the   *)
(* loader load_aftershock_data() and the four renderers, together with the *)
(* numeric steps the renderers delegate to numpy / pandas.                 *)
(*                                                                         *)
(* Units.  Magnitudes and bin edges are integers counting tenths of a      *)
(* magnitude unit (2.5 is 25, the bin width 0.2 is 2, the padding 0.5 is   *)
(* 5), so floor, ceil, arange and the histogram are exact decimal          *)
(* arithmetic.  Binary floating-point rounding of the edges is not         *)
(* modelled.  Timestamps are hours: a date is a day number, a time an hour *)
(* of the day.                                                             *)
(* Catalogs are the ones the data model admits: every magnitude is a       *)
(* number (no missing values); the catalog may be empty.                   *)
(***************************************************************************)
EXTENDS Integers, Sequences, FiniteSets, TLC

VARIABLES
    pc,            \* the statement of main() that runs next
    exit_code,     \* -1 while the process runs, then the process exit status
    error,         \* the unhandled exception and the function that raised it
    out_dir,       \* what is at args.output_dir on disk
    files_written, \* image files saved into the output directory, in order
    stdout,        \* the lines printed, in order
    df,            \* the Catalog returned by the loader
    main_shock,    \* the markers drawn with the main-shock star
    df_sorted,     \* create_time_series' sorted copy with cumulative_count
    bins,          \* create_magnitude_frequency: the bin edges
    hist,          \* create_magnitude_frequency: the per-bin counts
    cum_counts     \* create_magnitude_frequency: the cumulative counts

vars == <<pc, exit_code, error, out_dir, files_written, stdout, df,
          main_shock, df_sorted, bins, hist, cum_counts>>

(***************************************************************************)
(* Bounds of the inputs.                                                   *)
(***************************************************************************)
MaxLen == 3

\* (date, time) pairs of a row: day number and hour of the day
Stamps == {<<26, 4>>, <<27, 1>>}
\* (latitude, longitude, depth_km) of a row
Place == <<54, -2, 10>>
OtherPlace == <<55, -1, 8>>
\* magnitudes in tenths: -0.3 and 1.9 lie on bin edges, 3.0 lies inside a bin
\* and is its own ceiling
Magnitudes == {-3, 19, 30}

Required == {"date", "time", "latitude", "longitude", "depth_km", "magnitude"}

Row(s, p, m) ==
    [date |-> s[1], time |-> s[2], latitude |-> p[1], longitude |-> p[2],
     depth_km |-> p[3], magnitude |-> m]

\* every stamp and magnitude at one place, and two events at another place
EventRows ==
    {Row(s, Place, m) : s \in Stamps, m \in Magnitudes}
        \cup {Row(<<26, 4>>, OtherPlace, 30), Row(<<27, 1>>, OtherPlace, -3)}

SeqsUpTo(S, n) == UNION {[1..k -> S] : k \in 0..n}

\* the literal catalog with magnitudes [2.0, 2.5, 3.0, 3.0, 4.1]
LiteralRows ==
    << Row(<<26, 4>>, <<54, -2, 10>>, 20),
       Row(<<26, 9>>, <<54, -2, 10>>, 25),
       Row(<<27, 1>>, <<55, -1, 8>>, 30),
       Row(<<27, 1>>, <<54, -2, 10>>, 30),
       Row(<<26, 2>>, <<55, -1, 8>>, 41) >>

\* a row whose date text is not a date (day 0)
BadRow == Row(<<0, 4>>, <<54, -2, 10>>, 20)

File(e, c, r) == [exists |-> e, columns |-> c, rows |-> r]

WellFormedFiles ==
    {File(TRUE, Required, r) : r \in SeqsUpTo(EventRows, MaxLen) \cup {LiteralRows}}

\* a file without one of the required columns
MissingColumnFiles ==
    {File(TRUE, Required \ {c}, r) : c \in Required, r \in SeqsUpTo(EventRows, 1)}

UnparsableFiles == {File(TRUE, Required, <<BadRow>>)}

NoFile == File(FALSE, {}, <<>>)

Files == WellFormedFiles \cup MissingColumnFiles \cup UnparsableFiles \cup {NoFile}

(***************************************************************************)
(* Helpers over sequences.                                                 *)
(***************************************************************************)
RECURSIVE SumSeq(_)
SumSeq(s) == IF s = <<>> THEN 0 ELSE s[1] + SumSeq(Tail(s))

Reverse(s) == [i \in 1..Len(s) |-> s[Len(s) + 1 - i]]

\* np.cumsum
CumSum(s) == [i \in 1..Len(s) |-> SumSeq(SubSeq(s, 1, i))]

Column(rows, c) == [i \in 1..Len(rows) |-> rows[i][c]]

SeqMax(s) == CHOOSE x \in {s[i] : i \in DOMAIN s} : \A j \in DOMAIN s : s[j] <= x
SeqMin(s) == CHOOSE x \in {s[i] : i \in DOMAIN s} : \A j \in DOMAIN s : x <= s[j]

NoError == [type |-> "none", at |-> "none"]
Raised(t, f) == [type |-> t, at |-> f]

NoFrame == [columns |-> {}, rows |-> <<>>]

\* an unhandled exception leaves main(): traceback, exit status 1
Propagate(t, f) ==
    /\ error' = Raised(t, f)
    /\ exit_code' = 1
    /\ pc' = "exited"

(***************************************************************************)
(* load_aftershock_data                                                    *)
(***************************************************************************)
\* pd.to_datetime(date + ' ' + time): hours since day 0
ToDatetime(date, time) == date * 24 + time

Parsable(row) == row.date >= 1 /\ row.date <= 31 /\ row.time >= 0 /\ row.time <= 23

WithDatetime(row) ==
    [date |-> row.date, time |-> row.time, latitude |-> row.latitude,
     longitude |-> row.longitude, depth_km |-> row.depth_km,
     magnitude |-> row.magnitude, datetime |-> ToDatetime(row.date, row.time)]

\* the outcome of load_aftershock_data(filepath): an exception type or "ok"
LoadOutcome(f) ==
    IF ~f.exists THEN "FileNotFoundError"
    ELSE IF ~({"date", "time"} \subseteq f.columns) THEN "KeyError"
    ELSE IF \E i \in DOMAIN f.rows : ~Parsable(f.rows[i]) THEN "ParserError"
    ELSE "ok"

LoadedFrame(f) ==
    [columns |-> f.columns \cup {"datetime"},
     rows |-> [i \in DOMAIN f.rows |-> WithDatetime(f.rows[i])]]

(***************************************************************************)
(* main: argument parsing and the output directory                         *)
(***************************************************************************)
Init ==
    /\ pc = "parse_args"
    /\ exit_code = -1
    /\ error = NoError
    /\ out_dir \in {"absent", "dir", "readonly_dir", "file"}
    /\ files_written = <<>>
    /\ stdout = <<>>
    /\ df = NoFrame
    /\ main_shock = <<>>
    /\ df_sorted = NoFrame
    /\ bins = <<>>
    /\ hist = <<>>
    /\ cum_counts = <<>>

\* parser.parse_args(): a bad command line ends the process with status 2
parse_args ==
    /\ pc = "parse_args"
    /\ \E valid \in BOOLEAN :
        IF valid
        THEN /\ pc' = "makedirs"
             /\ UNCHANGED <<exit_code, error>>
        ELSE /\ pc' = "exited"
             /\ exit_code' = 2
             /\ error' = Raised("SystemExit", "parse_args")
    /\ UNCHANGED <<out_dir, files_written, stdout, df, main_shock, df_sorted,
                   bins, hist, cum_counts>>

\* os.makedirs(args.output_dir, exist_ok=True)
makedirs ==
    /\ pc = "makedirs"
    /\ IF out_dir = "file"
       THEN /\ Propagate("FileExistsError", "makedirs")
            /\ UNCHANGED out_dir
       ELSE /\ out_dir' = (IF out_dir = "absent" THEN "dir" ELSE out_dir)
            /\ pc' = "load"
            /\ UNCHANGED <<exit_code, error>>
    /\ UNCHANGED <<files_written, stdout, df, main_shock, df_sorted,
                   bins, hist, cum_counts>>

\* a driver that tries the load again after a failure
load_with_retry ==
    /\ pc = "load"
    /\ stdout' = Append(stdout, "Loading data from")
    /\ \E f \in Files :
        IF LoadOutcome(f) = "ok"
        THEN /\ df' = LoadedFrame(f)
             /\ pc' = "summary"
             /\ UNCHANGED <<exit_code, error>>
        ELSE /\ error' = Raised(LoadOutcome(f), "load_aftershock_data")
             /\ UNCHANGED <<df, pc, exit_code>>
    /\ UNCHANGED <<out_dir, files_written, main_shock, df_sorted,
                   bins, hist, cum_counts>>

\* print("Loading data from ..."); df = load_aftershock_data(args.data_file)
load_aftershock_data ==
    /\ pc = "load"
    /\ stdout' = Append(stdout, "Loading data from")
    /\ \E f \in Files :
        IF LoadOutcome(f) = "ok"
        THEN /\ df' = LoadedFrame(f)
             /\ pc' = "summary"
             /\ UNCHANGED <<exit_code, error>>
        ELSE /\ Propagate(LoadOutcome(f), "load_aftershock_data")
             /\ UNCHANGED df
    /\ UNCHANGED <<out_dir, files_written, main_shock, df_sorted,
                   bins, hist, cum_counts>>

\* the three summary prints of main
print_summary ==
    /\ pc = "summary"
    /\ IF "magnitude" \in df.columns
       THEN /\ stdout' = stdout \o <<"Loaded", "Time range", "Magnitude range">>
            /\ pc' = "create_map_plot"
            /\ UNCHANGED <<exit_code, error>>
       ELSE /\ stdout' = stdout \o <<"Loaded", "Time range">>
            /\ Propagate("KeyError", "main")
    /\ UNCHANGED <<out_dir, files_written, df, main_shock, df_sorted,
                   bins, hist, cum_counts>>

(***************************************************************************)
(* Renderers: plt.savefig(output_path) and the print that follows it       *)
(***************************************************************************)
HasColumns(frame, cs) == cs \subseteq frame.columns

CanSave == out_dir = "dir"

(***************************************************************************)
(* create_map_plot                                                         *)
(***************************************************************************)
\* df['magnitude'].max()
MaxMagnitude(rows) == SeqMax(Column(rows, "magnitude"))

\* df[df['magnitude'] == df['magnitude'].max()]
MaxRows(rows) == SelectSeq(rows, LAMBDA r : r.magnitude = MaxMagnitude(rows))

\* df.iloc[0]: the first row of the file, whatever its magnitude
MainShockFirstRow(rows) == rows[1]

\* df[...].iloc[0]
MainShock(rows) == MaxRows(rows)[1]

\* the star marker of ax.scatter(main_shock['longitude'], main_shock['latitude'], ...)
Star(row) ==
    [longitude |-> row.longitude, latitude |-> row.latitude, label |-> row.magnitude]

create_map_plot ==
    /\ pc = "create_map_plot"
    /\ IF ~HasColumns(df, {"longitude", "latitude", "depth_km", "magnitude"})
       THEN /\ Propagate("KeyError", "create_map_plot")
            /\ UNCHANGED <<main_shock, files_written, stdout>>
       ELSE IF df.rows = <<>>
       THEN /\ Propagate("IndexError", "create_map_plot")
            /\ UNCHANGED <<main_shock, files_written, stdout>>
       ELSE /\ main_shock' = Append(main_shock, Star(MainShock(df.rows)))
            /\ IF CanSave
               THEN /\ files_written' = Append(files_written, "aftershock_map.png")
                    /\ stdout' = Append(stdout, "Map plot saved")
                    /\ pc' = "create_depth_profile"
                    /\ UNCHANGED <<exit_code, error>>
               ELSE /\ Propagate("PermissionError", "create_map_plot")
                    /\ UNCHANGED <<files_written, stdout>>
    /\ UNCHANGED <<out_dir, df, df_sorted, bins, hist, cum_counts>>

(***************************************************************************)
(* create_depth_profile                                                    *)
(***************************************************************************)
\* create_depth_profile(df) called without an output path: plt.show()
create_depth_profile_show ==
    /\ pc = "create_depth_profile"
    /\ pc' = "create_time_series"
    /\ UNCHANGED <<exit_code, error, files_written, stdout, out_dir, df,
                   main_shock, df_sorted, bins, hist, cum_counts>>

create_depth_profile ==
    /\ pc = "create_depth_profile"
    /\ IF ~HasColumns(df, {"longitude", "latitude", "depth_km", "magnitude"})
       THEN /\ Propagate("KeyError", "create_depth_profile")
            /\ UNCHANGED <<files_written, stdout>>
       ELSE IF CanSave
       THEN /\ files_written' = Append(files_written, "depth_profile.png")
            /\ stdout' = Append(stdout, "Depth profile saved")
            /\ pc' = "create_time_series"
            /\ UNCHANGED <<exit_code, error>>
       ELSE /\ Propagate("PermissionError", "create_depth_profile")
            /\ UNCHANGED <<files_written, stdout>>
    /\ UNCHANGED <<out_dir, df, main_shock, df_sorted, bins, hist, cum_counts>>

(***************************************************************************)
(* create_time_series                                                      *)
(***************************************************************************)
Injective(f) == \A i, j \in DOMAIN f : f[i] = f[j] => i = j

Perms(n) == {f \in [1..n -> 1..n] : Injective(f)}

IsAscending(rows) ==
    \A i \in 1..(Len(rows) - 1) : rows[i].datetime <= rows[i + 1].datetime

\* df.sort_values('datetime'): the default sort is not stable, so rows with
\* equal timestamps may come out in any order
SortValues(rows) ==
    {s \in {[i \in 1..Len(rows) |-> rows[p[i]]] : p \in Perms(Len(rows))} :
        IsAscending(s)}

\* range(len(df_sorted)): counting from 0
CumulativeRangeFromZero(n) == [i \in 1..n |-> i - 1]

\* range(1, len(df_sorted) + 1)
CumulativeRange(n) == [i \in 1..n |-> i]

WithCount(row, c) ==
    [date |-> row.date, time |-> row.time, latitude |-> row.latitude,
     longitude |-> row.longitude, depth_km |-> row.depth_km,
     magnitude |-> row.magnitude, datetime |-> row.datetime,
     cumulative_count |-> c]

\* df_sorted['cumulative_count'] = range(1, len(df_sorted) + 1)
AssignCount(rows) ==
    [i \in 1..Len(rows) |-> WithCount(rows[i], CumulativeRange(Len(rows))[i])]

\* df.sort_values('datetime', inplace=True) and the new column on df itself
create_time_series_inplace ==
    /\ pc = "create_time_series"
    /\ \E s \in SortValues(df.rows) :
         /\ df_sorted' = [columns |-> df.columns \cup {"cumulative_count"},
                          rows |-> AssignCount(s)]
         /\ df' = [columns |-> df.columns \cup {"cumulative_count"}, rows |-> s]
    /\ IF CanSave
       THEN /\ files_written' = Append(files_written, "time_series.png")
            /\ stdout' = Append(stdout, "Time series plot saved")
            /\ pc' = "create_magnitude_frequency"
            /\ UNCHANGED <<exit_code, error>>
       ELSE /\ Propagate("PermissionError", "create_time_series")
            /\ UNCHANGED <<files_written, stdout>>
    /\ UNCHANGED <<out_dir, main_shock, bins, hist, cum_counts>>

create_time_series ==
    /\ pc = "create_time_series"
    /\ IF ~HasColumns(df, {"datetime", "magnitude", "depth_km"})
       THEN /\ Propagate("KeyError", "create_time_series")
            /\ UNCHANGED <<df_sorted, files_written, stdout>>
       ELSE /\ \E s \in SortValues(df.rows) :
                 df_sorted' = [columns |-> df.columns \cup {"cumulative_count"},
                               rows |-> AssignCount(s)]
            /\ IF CanSave
               THEN /\ files_written' = Append(files_written, "time_series.png")
                    /\ stdout' = Append(stdout, "Time series plot saved")
                    /\ pc' = "create_magnitude_frequency"
                    /\ UNCHANGED <<exit_code, error>>
               ELSE /\ Propagate("PermissionError", "create_time_series")
                    /\ UNCHANGED <<files_written, stdout>>
    /\ UNCHANGED <<out_dir, df, main_shock, bins, hist, cum_counts>>

(***************************************************************************)
(* create_magnitude_frequency                                              *)
(***************************************************************************)
\* np.floor and np.ceil of a magnitude held in tenths
Floor(m) == 10 * (m \div 10)
Ceil(m) == 0 - Floor(0 - m)

\* the bin width 0.2 and the padding 0.5, in tenths
BinWidth == 2
Padding == 5

\* np.arange(start, stop, step): ceil((stop - start) / step) values from start
ARange(start, stop, step) ==
    LET n == 0 - ((0 - (stop - start)) \div step)
    IN  [i \in 1..(IF n > 0 THEN n ELSE 0) |-> start + (i - 1) * step]

\* np.arange(min_mag - 0.5, max_mag, 0.2): the upper padding left out
MagnitudeBinsNoUpperPadding(magnitudes) ==
    ARange(Floor(SeqMin(magnitudes)) - Padding, Ceil(SeqMax(magnitudes)), BinWidth)

\* bins = np.arange(min_mag - 0.5, max_mag + 0.5, 0.2)
MagnitudeBins(magnitudes) ==
    ARange(Floor(SeqMin(magnitudes)) - Padding, Ceil(SeqMax(magnitudes)) + Padding,
           BinWidth)

\* sa.searchsorted(v, 'left') and sa.searchsorted(v, 'right') on the sorted data
SearchSortedLeft(a, v) == Cardinality({i \in DOMAIN a : a[i] < v})
SearchSortedRight(a, v) == Cardinality({i \in DOMAIN a : a[i] <= v})

\* np.histogram's cumulative counts at the edges: every bin is half-open but
\* the last, which includes its right edge
SearchSortedInclusive(a, edges) ==
    [j \in 1..Len(edges) |->
        IF j < Len(edges) THEN SearchSortedLeft(a, edges[j])
        ELSE SearchSortedRight(a, edges[j])]

\* np.histogram(magnitudes, bins=bins)[0] = np.diff(cum_n)
Histogram(a, edges) ==
    LET cum_n == SearchSortedInclusive(a, edges)
    IN  [i \in 1..(IF Len(edges) > 0 THEN Len(edges) - 1 ELSE 0) |->
            cum_n[i + 1] - cum_n[i]]

\* np.cumsum(hist[::-1]): the result not reversed back
CumCountsNotReversedBack(h) == CumSum(Reverse(h))

\* np.cumsum(hist): the running sum taken left to right
CumCountsLeftToRight(h) == CumSum(h)

\* cum_counts = np.cumsum(hist[::-1])[::-1]
CumCounts(h) == Reverse(CumSum(Reverse(h)))

create_magnitude_frequency ==
    /\ pc = "create_magnitude_frequency"
    /\ IF ~HasColumns(df, {"magnitude"})
       THEN /\ Propagate("KeyError", "create_magnitude_frequency")
            /\ UNCHANGED <<bins, hist, cum_counts, files_written, stdout>>
       ELSE IF df.rows = <<>>
       THEN /\ Propagate("ValueError", "create_magnitude_frequency")
            /\ UNCHANGED <<bins, hist, cum_counts, files_written, stdout>>
       ELSE LET magnitudes == Column(df.rows, "magnitude")
                edges == MagnitudeBins(magnitudes)
                h == Histogram(magnitudes, edges)
            IN  /\ bins' = edges
                /\ hist' = h
                /\ cum_counts' = CumCounts(h)
                /\ IF CanSave
                   THEN /\ files_written' = Append(files_written, "magnitude_frequency.png")
                        /\ stdout' = Append(stdout, "Magnitude-frequency plot saved")
                        /\ pc' = "finish"
                        /\ UNCHANGED <<exit_code, error>>
                   ELSE /\ Propagate("PermissionError", "create_magnitude_frequency")
                        /\ UNCHANGED <<files_written, stdout>>
    /\ UNCHANGED <<out_dir, df, main_shock, df_sorted>>

\* print("All plots saved to ..."); main returns and the process exits 0
finish ==
    /\ pc = "finish"
    /\ stdout' = Append(stdout, "All plots saved")
    /\ pc' = "exited"
    /\ exit_code' = 0
    /\ UNCHANGED <<error, out_dir, files_written, df, main_shock, df_sorted,
                   bins, hist, cum_counts>>

Next ==
    \/ parse_args
    \/ makedirs
    \/ load_aftershock_data
    \/ print_summary
    \/ create_map_plot
    \/ create_depth_profile
    \/ create_time_series
    \/ create_magnitude_frequency
    \/ finish

Spec == Init /\ [][Next]_vars

(***************************************************************************)
(* Properties                                                              *)
(***************************************************************************)
Range(s) == {s[i] : i \in DOMAIN s}

IsPrefix(s, t) == Len(s) <= Len(t) /\ s = SubSeq(t, 1, Len(s))

\* the loader has returned a Catalog to main
Returned == pc \notin {"parse_args", "makedirs", "load"} /\ df # NoFrame

\* create_map_plot has been called
MapCalled ==
    \/ pc \in {"create_depth_profile", "create_time_series",
               "create_magnitude_frequency", "finish"}
    \/ pc = "exited" /\ exit_code = 0
    \/ pc = "exited" /\ error.at \in {"create_map_plot", "create_depth_profile",
                                      "create_time_series",
                                      "create_magnitude_frequency"}

\* create_time_series has sorted its copy
SeriesComputed == df_sorted # NoFrame

\* create_magnitude_frequency has computed its histogram
HistComputed == bins # <<>>

N == Len(df.rows)

Mag(k) == df.rows[k].magnitude

NBins == Len(bins) - 1

\* event k lies in bin b: bins are [lower, upper), the last one [lower, upper]
InBin(k, b) ==
    /\ bins[b] <= Mag(k)
    /\ IF b = NBins THEN Mag(k) <= bins[b + 1] ELSE Mag(k) < bins[b + 1]

\* C1: the per-bin counts of create_magnitude_frequency sum to N: every event
\* lies in exactly one bin (the maximum and the events on a bin edge too), and
\* each bin counts the events that lie in it.
C1_BinCountsSumToN ==
    HistComputed =>
        /\ Len(hist) = NBins
        /\ SumSeq(hist) = N
        /\ \A k \in 1..N : Cardinality({b \in 1..NBins : InBin(k, b)}) = 1
        /\ \A b \in 1..NBins : hist[b] = Cardinality({k \in 1..N : InBin(k, b)})

\* a histogram of several events, one of them on a bin edge, whose maximum
\* magnitude is an integer
C1_Witness ==
    /\ HistComputed
    /\ N >= 2
    /\ \E k \in 1..N : Mag(k) \in Range(bins)
    /\ \E k \in 1..N : (\A j \in 1..N : Mag(j) <= Mag(k)) /\ Mag(k) % 10 = 0

\* C2: once the loader has returned, the Catalog has every required column
\* (a file without one of them fails inside the loader).
C2_LoaderRejectsMissingColumn == Returned => Required \subseteq df.columns

FourFiles ==
    <<"aftershock_map.png", "depth_profile.png", "time_series.png",
      "magnitude_frequency.png">>

AllLines ==
    <<"Loading data from", "Loaded", "Time range", "Magnitude range",
      "Map plot saved", "Depth profile saved", "Time series plot saved",
      "Magnitude-frequency plot saved", "All plots saved">>

\* C3: main runs its steps in one order: the directory exists before the
\* load, the load and the summary come before any renderer, each renderer
\* starts when the previous one has saved its file, and a run that exits 0
\* has written exactly the four files, in order.
C3_DriverOrder ==
    /\ IsPrefix(files_written, FourFiles)
    /\ IsPrefix(stdout, AllLines)
    /\ stdout # <<>> => out_dir \in {"dir", "readonly_dir"}
    /\ (MapCalled \/ pc = "create_map_plot") =>
           Returned /\ IsPrefix(SubSeq(AllLines, 1, 4), stdout)
    /\ main_shock # <<>> => MapCalled
    /\ pc = "create_map_plot" => files_written = <<>>
    /\ pc = "create_depth_profile" => files_written = SubSeq(FourFiles, 1, 1)
    /\ pc = "create_time_series" => files_written = SubSeq(FourFiles, 1, 2)
    /\ pc = "create_magnitude_frequency" => files_written = SubSeq(FourFiles, 1, 3)
    /\ SeriesComputed => IsPrefix(SubSeq(FourFiles, 1, 2), files_written)
    /\ HistComputed => IsPrefix(SubSeq(FourFiles, 1, 3), files_written)
    /\ pc = "finish" => files_written = FourFiles
    /\ exit_code = 0 => files_written = FourFiles /\ stdout = AllLines

\* a run that exited 0 with the four files written
C3_Witness == pc = "exited" /\ exit_code = 0 /\ files_written = FourFiles /\ N >= 2

\* C4: an exception of the loader ends the process with a non-zero status:
\* nothing is printed after the load line, no renderer has run, no file is
\* written; and the status is 0 only when no step raised.
C4_LoadFailureTerminates ==
    /\ error.at = "load_aftershock_data" =>
           /\ pc = "exited"
           /\ exit_code > 0
           /\ stdout = <<"Loading data from">>
           /\ files_written = <<>>
           /\ df = NoFrame
           /\ main_shock = <<>> /\ df_sorted = NoFrame /\ bins = <<>>
    /\ error # NoError => pc = "exited" /\ exit_code > 0
    /\ exit_code = 0 => error = NoError /\ pc = "exited"

\* the process has ended on a KeyError of the loader
C4_Witness ==
    /\ error = Raised("KeyError", "load_aftershock_data")
    /\ pc = "exited" /\ exit_code = 1

\* exactly one star, on a record of maximum magnitude
OneStarOnMaximum ==
    /\ Len(main_shock) = 1
    /\ \A k \in 1..N : Mag(k) <= main_shock[1].label
    /\ \E k \in 1..N :
           /\ Mag(k) = main_shock[1].label
           /\ df.rows[k].longitude = main_shock[1].longitude
           /\ df.rows[k].latitude = main_shock[1].latitude

\* C5 as stated: for any Catalog (with its required columns) create_map_plot
\* highlights exactly one event, one of maximum magnitude.
C5_AlwaysOneMainShock ==
    (MapCalled /\ Required \subseteq df.columns) => OneStarOnMaximum

\* C5, amended: for any Catalog with at least one event create_map_plot
\* highlights exactly one event, one of maximum magnitude.
C5_OneMainShockWhenNonEmpty ==
    (MapCalled /\ Required \subseteq df.columns /\ N >= 1) => OneStarOnMaximum

\* the map of a Catalog whose maximum is not its first row and is shared by
\* two events at different places
C5_Witness ==
    /\ MapCalled
    /\ Len(main_shock) = 1
    /\ Mag(1) < main_shock[1].label
    /\ \E j, k \in 1..N :
           /\ Mag(j) = main_shock[1].label /\ Mag(k) = main_shock[1].label
           /\ df.rows[j].longitude # df.rows[k].longitude

WithoutCount(row) ==
    [date |-> row.date, time |-> row.time, latitude |-> row.latitude,
     longitude |-> row.longitude, depth_km |-> row.depth_km,
     magnitude |-> row.magnitude, datetime |-> row.datetime]

\* C6: create_time_series' series holds the N records in ascending timestamp
\* order, numbered 1..N in that order: the count never decreases and ends at N.
C6_CumulativeCount ==
    SeriesComputed =>
        LET r == df_sorted.rows
        IN  /\ Len(r) = N
            /\ \A i \in 1..(Len(r) - 1) : r[i].datetime <= r[i + 1].datetime
            /\ \A i \in 1..Len(r) : r[i].cumulative_count = i
            /\ \A i \in 1..(Len(r) - 1) :
                   r[i].cumulative_count <= r[i + 1].cumulative_count
            /\ Len(r) >= 1 => r[Len(r)].cumulative_count = N
            /\ \A x \in Range(df.rows) :
                   Cardinality({i \in 1..Len(r) : WithoutCount(r[i]) = x})
                       = Cardinality({i \in 1..N : df.rows[i] = x})

\* a series of three events, two of them at the same time, read from a file
\* that is not in time order
C6_Witness ==
    /\ SeriesComputed
    /\ N >= 3
    /\ \E i \in 1..(N - 1) : df.rows[i].datetime > df.rows[i + 1].datetime
    /\ \E i \in 1..(N - 1) :
           df_sorted.rows[i].datetime = df_sorted.rows[i + 1].datetime

\* C7: the cumulative counts never increase from one bin to the next.
C7_CumCountsNonIncreasing ==
    \A i \in 1..(Len(cum_counts) - 1) : cum_counts[i] >= cum_counts[i + 1]

\* cumulative counts that drop twice along the bins
C7_Witness ==
    /\ HistComputed
    /\ \E i, j \in 1..(Len(cum_counts) - 1) :
           /\ i < j
           /\ cum_counts[i] > cum_counts[i + 1]
           /\ cum_counts[j] > cum_counts[j + 1]

\* C8: once the loader has returned it, the Catalog never changes: no renderer
\* alters its rows, their order or its columns.
C8_CatalogReadOnly ==
    [][pc \notin {"parse_args", "makedirs", "load"} => df' = df]_vars

\* create_magnitude_frequency has run on the Catalog after create_time_series
\* sorted a copy into another order
C8_Witness ==
    /\ HistComputed
    /\ SeriesComputed
    /\ \E i \in 1..N : WithoutCount(df_sorted.rows[i]) # df.rows[i]
    /\ df.columns = Required \cup {"datetime"}

\* C9: the bin edges are 0.2 apart, from floor(min) - 0.5 to ceil(max) + 0.5.
C9_BinsSpanToUpperPadding ==
    HistComputed =>
        LET magnitudes == Column(df.rows, "magnitude")
        IN  /\ \A i \in 1..(Len(bins) - 1) : bins[i + 1] - bins[i] = BinWidth
            /\ bins[1] = Floor(SeqMin(magnitudes)) - Padding
            /\ bins[Len(bins)] = Ceil(SeqMax(magnitudes)) + Padding

====
